---- MODULE Spec2Model ----
(***************************************************************************)
(* Model of gydytojas.py: the slot search paginator (search), the booking  *)
(* conflict resolver (autobook) and the retry loop of main.                *)
(*                                                                         *)
(* Time is a number of ticks.  A minute holds the three instants the code  *)
(* tells apart: :00.000000 (what parse_datetime gives), :59.000000 (a      *)
(* value with seconds and no microseconds) and :59.999999 (what            *)
(* parse_datetime(maximize=True) gives).  A day holds MinutesPerDay        *)
(* minutes.                                                                *)
(***************************************************************************)
EXTENDS Integers, Sequences, FiniteSets, TLC

\* ------------------------------------------------------------------ bounds

MaxDays == 2          \* days of the modelled horizon
MaxCount == 3         \* counters saturate here ("MaxCount or more")
MaxAttempts == 2      \* the pass counter saturates here
MaxPassTicks == 1     \* ticks of the clock while one pass searches

\* ------------------------------------------------------------------- time

MinuteTicks == 3
MinutesPerDay == 2
DayTicks == MinutesPerDay * MinuteTicks
MaxTime == MaxDays * DayTicks
Times == 0..(MaxTime - 1)

None == -1

Max(a, b) == IF a >= b THEN a ELSE b
Min(a, b) == IF a <= b THEN a ELSE b

\* datetime.replace(second=0, microsecond=0)
StartOfMinute(t) == t - (t % MinuteTicks)
\* datetime.replace(hour=0, minute=0, second=0, microsecond=0)
StartOfDay(t) == t - (t % DayTicks)

ONE_DAY == DayTicks

\* parse_datetime(t): seconds are dropped
parse_datetime(t) == StartOfMinute(t)

\* parse_datetime(t, maximize=True): second=59, microsecond=999999, and the
\* last minute of the day when the text names a day only
parse_datetime_max(t, dayOnly) ==
    IF dayOnly THEN StartOfDay(t) + DayTicks - 1
    ELSE StartOfMinute(t) + MinuteTicks - 1

\* strftime('%Y-%m-%dT%H:%M:%S'): microseconds are dropped
format_datetime(t) == IF t % MinuteTicks = MinuteTicks - 1 THEN t - 1 ELSE t

\* ------------------------------------------------------------- provider data

\* texts and ids are numbered in their sort order
Specializations == {1}
Doctors == {1}
Clinics == {1}
VisitIds == {111}

\* appointmentDate texts of the provider carry seconds at most (strptime
\* knows no fraction), so the :59.999999 instant is never a raw date
RawDates == {t \in Times : t % MinuteTicks = 0 \/ t = 1}

Items == [appointmentDate : RawDates, specializationName : Specializations,
          doctorName : Doctors, clinicName : Clinics, id : VisitIds]

\* a page is empty, holds one item, or two items in either order
PageLens == {0, 1, 2}
Pages == UNION {[1..n -> Items] : n \in PageLens}
\* the pages of at most one item
ShortPages == {data \in Pages : Len(data) <= 1}

\* line 25: namedtuple('Visit', 'date specialization doctor clinic visit_id')
Visit(date, specialization, doctor, clinic, visit_id) ==
    <<date, specialization, doctor, clinic, visit_id>>

DateOf(v) == v[1]
VisitIdOf(v) == v[5]

VARIABLES
    now,                  \* the wall clock
    provider,             \* the pages the provider may answer a search with
    portal,               \* the Process pages the provider may answer with
    catalogue,            \* the lookups setup_params may go through, with their filter lists
    pc,                   \* where main is ("harness": search is driven alone)
    outcome,              \* how the run ended ("" while it runs)
    args,                 \* the parsed command line
    params,               \* main: the resolved filter sets, one per combination
    lookups,              \* the match_param calls of the latest setup_params, with their results
    attempt,              \* main: pass counter (saturating)
    start, end,           \* main: the window of the running pass
    passNow,              \* the clock value read at the top of the running pass
    sidx,                 \* which element of params the chain is searching
    visits,               \* main: the filtered visits of the running pass
    unique_visits,        \* main: the displayed table
    passreqs,             \* search requests issued in the running pass (saturating)
    slept,                \* what the latest retry slept: "no", "fixed", "random"
    sleep_time,           \* main: the seconds the latest retry slept
    visit,                \* autobook: the visit to book
    allow_reschedule,     \* autobook: its flag
    bpc,                  \* where autobook is
    sent,                 \* the booking requests issued, in order
    conflict,             \* autobook: was div RescheduleVisitAppElementId found
    appointments,         \* autobook: json.loads(data['appointments']), in page order
    colliding,            \* autobook: the sorted colliding visits
    oldAppointmentId,     \* autobook: the id the Reschedule request carried
    response,             \* autobook: markers of the Reschedule or Confirm page
    result,               \* autobook: its return value
    spc,                  \* where the generator search() is
    start_time, end_time, \* arguments of the running search call
    since_time,           \* search: the cursor
    searchSince,          \* payload['searchSince'] of the latest request
    prevSince,            \* payload['searchSince'] of the request before it
    nreq,                 \* requests issued by this search call (saturating)
    nadv,                 \* cursor advances of this search call (saturating)
    items,                \* data['items'] of the latest response
    yielded               \* visits yielded from the latest response

svars == <<spc, start_time, end_time, since_time, searchSince, prevSince,
           nreq, nadv, items, yielded>>

bvars == <<visit, allow_reschedule, bpc, sent, conflict, appointments, colliding,
           oldAppointmentId, response, result>>

mvars == <<outcome, args, params, lookups, attempt, start, end, passNow, sidx, visits,
           unique_visits, passreqs, slept, sleep_time>>

vars == <<now, provider, portal, catalogue, pc, mvars, bvars, svars>>

Inc(n) == IF n < MaxCount THEN n + 1 ELSE n

\* ------------------------------------------------------------------ search

\* the visit without the parse of its date
YieldedVisitRawDate(item) ==
    Visit(item.appointmentDate, item.specializationName, item.doctorName,
          item.clinicName, item.id)

\* lines 268 and 271-276: the Visit yielded for one item of the page
YieldedVisit(item) ==
    Visit(parse_datetime(item.appointmentDate), item.specializationName,
          item.doctorName, item.clinicName, item.id)

\* lines 267-276: the for loop over data['items'], as a fold from the left;
\* acc is <<max_appointment_date, visits yielded so far>>
RECURSIVE PageLoop(_, _, _)
PageLoop(its, i, acc) ==
    IF i > Len(its) THEN acc
    ELSE LET v == YieldedVisit(its[i])
             appointment_date == DateOf(v)
             \* max(max_appointment_date or appointment_date, appointment_date)
             m == Max(IF acc[1] = None THEN appointment_date ELSE acc[1],
                      appointment_date)
         IN PageLoop(its, i + 1, <<m, Append(acc[2], v)>>)

\* line 263: not data['items']
NoMoreVisits(data) == data = <<>>

\* line 278
NextSince(max_appointment_date) == StartOfDay(max_appointment_date) + ONE_DAY

\* the test with >= for >
PastEndInclusive(since, endt) == since >= endt

\* line 280: "passed desired max time"
PastEnd(since, endt) == since > endt

\* line 249; the clock is read when the generator is first resumed
SearchBegin ==
    /\ spc = "begin"
    /\ since_time' = Max(now, start_time)
    /\ spc' = "request"
    /\ UNCHANGED <<start_time, end_time, searchSince, prevSince, nreq, nadv,
                   items, yielded>>

\* lines 252-282: one turn of the while loop: the request, the yields of
\* its page, the cursor advance and the test against end_time
SearchPage ==
    /\ spc = "request"
    /\ searchSince' = format_datetime(since_time)
    /\ prevSince' = searchSince
    /\ nreq' = Inc(nreq)
    /\ \/ \* raise_for_status() raises out of the generator
          /\ spc' = "raised"
          /\ items' = <<>>
          /\ yielded' = <<>>
          /\ UNCHANGED <<since_time, nadv>>
       \/ \E data \in provider :
            /\ items' = data
            /\ IF NoMoreVisits(data)
               THEN /\ spc' = "done"
                    /\ yielded' = <<>>
                    /\ UNCHANGED <<since_time, nadv>>
               ELSE LET r == PageLoop(data, 1, <<None, <<>>>>)
                    IN /\ yielded' = r[2]
                       /\ since_time' = NextSince(r[1])
                       /\ nadv' = Inc(nadv)
                       /\ spc' = IF PastEnd(since_time', end_time)
                                 THEN "done" ELSE "request"
    /\ UNCHANGED <<start_time, end_time>>

\* the generator frame before its first resumption
SearchIdle(st, en) ==
    /\ spc = "begin"
    /\ start_time = st
    /\ end_time = en
    /\ since_time = None
    /\ searchSince = None
    /\ prevSince = None
    /\ nreq = 0
    /\ nadv = 0
    /\ items = <<>>
    /\ yielded = <<>>

\* search(st, en, p) is called: a new generator frame
SearchCall(st, en) ==
    /\ spc' = "begin"
    /\ start_time' = st
    /\ end_time' = en
    /\ since_time' = None
    /\ searchSince' = None
    /\ prevSince' = None
    /\ nreq' = 0
    /\ nadv' = 0
    /\ items' = <<>>
    /\ yielded' = <<>>

\* no main running: the values of its variables before main assigns them
MainIdle ==
    /\ outcome = ""
    /\ args = <<>>
    /\ params = <<>>
    /\ lookups = <<>>
    /\ attempt = 0
    /\ start = None
    /\ end = None
    /\ passNow = None
    /\ sidx = 0
    /\ visits = {}
    /\ unique_visits = <<>>
    /\ passreqs = 0
    /\ slept = "no"
    /\ sleep_time = None

\* no autobook call yet
BookIdle ==
    /\ visit = <<>>
    /\ allow_reschedule = FALSE
    /\ bpc = "idle"
    /\ sent = <<>>
    /\ conflict = "unknown"
    /\ appointments = <<>>
    /\ colliding = <<>>
    /\ oldAppointmentId = None
    /\ response = <<>>
    /\ result = FALSE

\* a caller that only drains the generator: list(search(start_time, end_time, p))
HarnessBegin ==
    pc = "harness" /\ SearchBegin /\ UNCHANGED <<now, provider, portal, catalogue, pc, mvars, bvars>>

HarnessPage ==
    pc = "harness" /\ SearchPage /\ UNCHANGED <<now, provider, portal, catalogue, pc, mvars, bvars>>

\* search(start_time, end_time, params) called alone at the time now; it
\* reads now and start_time through max(now, start_time) only, so one of
\* the two is taken at the origin of time
SearchInit ==
    /\ now \in Times
    /\ provider = Pages
    /\ portal = {}
    /\ catalogue = {}
    /\ pc = "harness"
    /\ spc = "begin"
    /\ start_time \in Times
    /\ now = 0 \/ start_time = 0
    /\ end_time \in Times
    /\ since_time = None
    /\ searchSince = None
    /\ prevSince = None
    /\ nreq = 0
    /\ nadv = 0
    /\ items = <<>>
    /\ yielded = <<>>
    /\ MainIdle
    /\ BookIdle

SearchNext ==
    \/ HarnessBegin
    \/ HarnessPage

SearchSpec == SearchInit /\ [][SearchNext]_vars

\* the interpreter keeps running the generator while it can take a step
FairSearchSpec == SearchSpec /\ WF_vars(SearchNext)

\* ----------------------------------------------------- claims about search

SearchEnded == spc \in {"done", "raised"}

\* C1: search terminates whatever pages the provider returns, also an endless
\* stream of non-empty pages dated before end_time.
C1_SearchTerminates == <>SearchEnded

\* C2: within one call of search, the searchSince of a request is never
\* lower than the searchSince of the request before it.
C2_SinceNonDecreasing ==
    prevSince # None => searchSince >= prevSince

\* the visits of a page, in page order
VisitsOf(data) ==
    [i \in DOMAIN data |->
        Visit(StartOfMinute(data[i].appointmentDate), data[i].specializationName,
              data[i].doctorName, data[i].clinicName, data[i].id)]

\* C9: what a response makes search yield is exactly the visits of its page,
\* in page order; an empty page yields nothing, ends the call without error
\* and advances no cursor: an empty first page ends the call after one
\* request, and one non-empty page followed by an empty page ends it after
\* two requests and one cursor advance; nothing follows the end of the call.
C9_Pages ==
    (nreq >= 1 /\ spc # "raised") =>
        /\ yielded = VisitsOf(items)
        /\ items = <<>> => spc = "done"
        /\ (items = <<>> /\ nreq = 1) => nadv = 0
        /\ (items = <<>> /\ nreq = 2) => nadv = 1
        /\ (items # <<>> /\ nreq < MaxCount) => nadv = nreq

C9_YieldsExactlyThePages == []C9_Pages /\ [][~SearchEnded]_vars

C9_Witness ==
    /\ spc = "done"
    /\ nreq = 2
    /\ nadv = 1
    /\ items = <<>>

\* the latest date of a page, whatever the order of its items
MaxDateOf(data) ==
    CHOOSE d \in {StartOfMinute(data[i].appointmentDate) : i \in DOMAIN data} :
        \A i \in DOMAIN data : StartOfMinute(data[i].appointmentDate) <= d

\* C10: after a non-empty page the cursor is midnight of the day after the
\* latest date of the page; the call ends there exactly when that value is
\* greater than end_time, and otherwise the next request carries that value.
C10_Cursor ==
    (nreq >= 1 /\ items # <<>>) =>
        /\ since_time = StartOfDay(MaxDateOf(items)) + DayTicks
        /\ spc = "done" <=> since_time > end_time
        /\ spc = "request" <=> since_time <= end_time

C10_DayRollover ==
    []C10_Cursor /\ [][(spc = "request" /\ nreq >= 1) => searchSince' = since_time]_vars

\* a second request has carried a cursor equal to end_time
C10_Witness ==
    /\ nreq = 2
    /\ prevSince # None
    /\ searchSince = end_time
    /\ searchSince = StartOfDay(searchSince)

\* ---------------------------------------------------------------- ordering

\* tuple comparison, as sorted() and list.sort() use it
RECURSIVE TupleLess(_, _)
TupleLess(a, b) ==
    IF a = <<>> \/ b = <<>> THEN Len(a) < Len(b)
    ELSE \/ a[1] < b[1]
         \/ a[1] = b[1] /\ TupleLess(Tail(a), Tail(b))

\* the element of the lowest visit_id, the rest of the record breaking ties
FirstByVisitId(S) ==
    CHOOSE v \in S : \A w \in S :
        w = v \/ v[Len(v)] < w[Len(w)] \/ (v[Len(v)] = w[Len(w)] /\ TupleLess(v, w))

\* the first element of the sorted list
First(S) == CHOOSE v \in S : \A w \in S : w = v \/ TupleLess(v, w)

\* sorted(set(...)): the elements of a set in ascending order
RECURSIVE SortSet(_)
SortSet(S) ==
    IF S = {} THEN <<>> ELSE <<First(S)>> \o SortSet(S \ {First(S)})

\* list.sort(): the elements of a list in ascending order, repeats kept
RECURSIVE Insert(_, _)
Insert(v, q) ==
    IF q = <<>> THEN <<v>>
    ELSE IF TupleLess(v, q[1]) THEN <<v>> \o q
    ELSE <<q[1]>> \o Insert(v, Tail(q))

RECURSIVE SortList(_)
SortList(q) == IF q = <<>> THEN <<>> ELSE Insert(q[1], SortList(Tail(q)))

Range(q) == {q[i] : i \in DOMAIN q}

\* ---------------------------------------------------------------- autobook

\* '/Date(1576485900000)/': Unix time in milliseconds
ApptDates == {0, DayTicks * 1000}
ApptIds == {1, 2}
Appointments == [AppointmentDate : ApptDates, SpecializationName : Specializations,
                 DoctorName : Doctors, ClinicName : Clinics,
                 AppointmentId : ApptIds]
ApptLists == UNION {[1..n -> Appointments] : n \in PageLens}

\* lines 303-307
parse_appointment_date(date) == date \div 1000

\* what the Process page holds: the reschedule element, and the
\* appointments of its script
ProcessPages ==
    {[reschedule |-> FALSE, appointments |-> <<>>]} \cup
    {[reschedule |-> TRUE, appointments |-> a] : a \in ApptLists}
\* the Process pages of at most one appointment
ShortProcessPages == {page \in ProcessPages : Len(page.appointments) <= 1}

\* what the Reschedule page holds: div rescheduleSuccess, and div
\* rescheduleFailed absent, shown, or carrying the hidden attribute
ReschedulePages == [success : BOOLEAN, failure : {"absent", "shown", "hidden"}]

\* the verdict without the test of the hidden attribute
RescheduleResultBothPresent(page) == page.success /\ page.failure # "absent"

\* lines 329-336
RescheduleResult(page) ==
    IF ~(page.success /\ page.failure # "absent")
    THEN FALSE
    ELSE page.failure = "hidden"

\* the list without visits.sort()
CollidingVisitsUnsorted(appts) ==
    [i \in DOMAIN appts |->
        LET a == appts[i]
        IN Visit(parse_appointment_date(a.AppointmentDate),
                 a.SpecializationName, a.DoctorName, a.ClinicName,
                 a.AppointmentId)]

\* lines 309-315
CollidingVisits(appts) ==
    SortList([i \in DOMAIN appts |->
                LET a == appts[i]
                IN Visit(parse_appointment_date(a.AppointmentDate),
                         a.SpecializationName, a.DoctorName, a.ClinicName,
                         a.AppointmentId)])

\* the branch without the test of allow_reschedule
ProcessBranchAlwaysReschedule(reschedule_needed, allow) ==
    IF reschedule_needed THEN "reschedule" ELSE "confirm_get"

\* lines 291-294 and 338: where autobook goes after the Process page
ProcessBranch(reschedule_needed, allow) ==
    IF reschedule_needed
    THEN IF ~allow THEN "returned" ELSE "reschedule"
    ELSE "confirm_get"

\* lines 286-318 and 338-339: the Process request, the branch on the
\* reschedule element and the sorted list of colliding visits
AutobookProcess ==
    /\ bpc = "process"
    /\ sent' = Append(sent, "Process")
    /\ \/ \* raise_for_status()
          /\ bpc' = "http_error"
          /\ UNCHANGED <<conflict, appointments, colliding, result>>
       \/ \E page \in portal :
            LET branch == ProcessBranch(page.reschedule, allow_reschedule)
            IN /\ conflict' = IF page.reschedule THEN "yes" ELSE "no"
               /\ appointments' = IF branch = "reschedule"
                                  THEN page.appointments ELSE appointments
               /\ colliding' = IF branch = "reschedule"
                               THEN CollidingVisits(page.appointments)
                               ELSE colliding
               /\ result' = IF branch = "returned" THEN FALSE ELSE result
               \* visits[0] of an empty list raises IndexError
               /\ bpc' = IF branch = "reschedule" /\ colliding' = <<>>
                         THEN "error" ELSE branch
    /\ UNCHANGED <<visit, allow_reschedule, oldAppointmentId, response>>

\* lines 320-336: the Reschedule request and its verdict
AutobookReschedule ==
    /\ bpc = "reschedule"
    /\ sent' = Append(sent, "Reschedule")
    /\ oldAppointmentId' = VisitIdOf(colliding[1])
    /\ \/ /\ bpc' = "http_error"
          /\ UNCHANGED <<response, result>>
       \/ \E page \in ReschedulePages :
            /\ response' = page
            /\ result' = RescheduleResult(page)
            /\ bpc' = "returned"
    /\ UNCHANGED <<visit, allow_reschedule, conflict, appointments, colliding>>

\* lines 340-343: the Confirm GET; the form may be missing from the page
AutobookConfirmGet ==
    /\ bpc = "confirm_get"
    /\ sent' = Append(sent, "ConfirmGet")
    /\ \/ /\ bpc' = "http_error"
          /\ UNCHANGED response
       \/ \E form \in BOOLEAN :
            /\ response' = [form |-> form]
            \* extract_form_data(None) raises AttributeError before the POST
            /\ bpc' = IF form THEN "confirm_post" ELSE "error"
    /\ UNCHANGED <<visit, allow_reschedule, conflict, appointments, colliding,
                   oldAppointmentId, result>>

\* lines 344-347: the Confirm POST and the test for div confirm-visit
AutobookConfirmPost ==
    /\ bpc = "confirm_post"
    /\ sent' = Append(sent, "ConfirmPost")
    /\ \/ /\ bpc' = "http_error"
          /\ UNCHANGED <<response, result>>
       \/ \E confirm \in BOOLEAN :
            /\ response' = [confirm |-> confirm]
            /\ result' = confirm
            /\ bpc' = "returned"
    /\ UNCHANGED <<visit, allow_reschedule, conflict, appointments, colliding,
                   oldAppointmentId>>

Autobook ==
    \/ AutobookProcess
    \/ AutobookReschedule
    \/ AutobookConfirmGet
    \/ AutobookConfirmPost

\* autobook(visit, allow_reschedule) called alone
BookProcess ==
    pc = "bookharness" /\ AutobookProcess /\ UNCHANGED <<now, provider, portal, catalogue, pc, mvars, svars>>

BookReschedule ==
    pc = "bookharness" /\ AutobookReschedule /\ UNCHANGED <<now, provider, portal, catalogue, pc, mvars, svars>>

BookConfirmGet ==
    pc = "bookharness" /\ AutobookConfirmGet /\ UNCHANGED <<now, provider, portal, catalogue, pc, mvars, svars>>

BookConfirmPost ==
    pc = "bookharness" /\ AutobookConfirmPost /\ UNCHANGED <<now, provider, portal, catalogue, pc, mvars, svars>>

BookInit ==
    /\ now = 0
    /\ provider = {}
    /\ portal = ProcessPages
    /\ catalogue = {}
    /\ pc = "bookharness"
    /\ MainIdle
    /\ SearchIdle(None, None)
    /\ visit \in {Visit(d, 1, 1, 1, i) : d \in {0, MinuteTicks}, i \in VisitIds}
    /\ allow_reschedule \in BOOLEAN
    /\ bpc = "process"
    /\ sent = <<>>
    /\ conflict = "unknown"
    /\ appointments = <<>>
    /\ colliding = <<>>
    /\ oldAppointmentId = None
    /\ response = <<>>
    /\ result = FALSE

BookNext ==
    \/ BookProcess
    \/ BookReschedule
    \/ BookConfirmGet
    \/ BookConfirmPost

BookSpec == BookInit /\ [][BookNext]_vars

\* -------------------------------------------------------------------- main

\* the command lines of the model
StartTexts == {0, MinuteTicks + 1}
EndTexts == {MinuteTicks, DayTicks}
Margins == {0, MinuteTicks}
Intervals == {-5, 0, 5}
Combinations == {1, 2}

\* lines 91-107: Timerange; covers() compares the time of day
TimeRanges == {<<MinuteTicks, MinuteTicks + 1>>}
NoRange == <<>>
covers(range, dt) == range[1] <= dt % DayTicks /\ dt % DayTicks <= range[2]

\* lines 353-419: the argument parser
Args(intervals, ranges) ==
    [start : {parse_datetime(t) : t \in StartTexts},
     end : {parse_datetime_max(t, d) : t \in EndTexts, d \in BOOLEAN},
     margin : Margins,
     autobook : BOOLEAN,
     reschedule : BOOLEAN,
     keep_going : BOOLEAN,
     interval : intervals,
     time : ranges,
     combinations : Combinations]

\* the start that is not recomputed from the clock
EffectiveStartRequested(requested, clock, margin) == requested

\* line 441
EffectiveStart(requested, clock, margin) == Max(requested, clock + margin)

\* the test with > for >=
TooLateStrict(st, en) == st > en

\* line 444
TooLate(st, en) == st >= en

\* the filters with a start that is excluded
WantedAfterStart(v, st, en, range) ==
    /\ st < DateOf(v)
    /\ DateOf(v) <= en
    /\ range # NoRange => covers(range, DateOf(v))

\* lines 450-454: the two filters of a pass
Wanted(v, st, en, range) ==
    /\ st <= DateOf(v)
    /\ DateOf(v) <= en
    /\ range # NoRange => covers(range, DateOf(v))

\* the table that drops repeated full records only
UniqueVisitsByRecord(vs) ==
    [i \in 1..Cardinality(vs) |-> SubSeq(SortSet(vs)[i], 1, 4)]

\* line 456: sorted(set(v[:4] for v in visits))
UniqueVisits(vs) == SortSet({SubSeq(v, 1, 4) : v \in vs})

\* lines 478-482: what a retry sleeps
SleepKind(interval) ==
    IF interval = 0 THEN "no"
    ELSE IF interval > 0 THEN "fixed" ELSE "random"

\* the sleep that treats an interval of zero as a fixed one
SleepTimesNoZero(interval) ==
    IF interval >= 0 THEN {interval} ELSE 0..(-interval - 1)

\* lines 478-484: the whole seconds of sleep_time; random.random() is below 1,
\* and None stands for no call of time.sleep
SleepTimes(interval) ==
    IF interval = 0 THEN {None}
    ELSE IF interval > 0 THEN {interval} ELSE 0..(-interval - 1)

\* the run ends: SystemExit, an uncaught exception, or the return of main
Exit(how) ==
    /\ pc' = "exit"
    /\ outcome' = how

\* the lists of a pass are released when main is left
UnwindPass ==
    /\ visits' = {}
    /\ unique_visits' = <<>>

\* the frame of autobook is released; what it sent stays sent
UnwindBook ==
    /\ visit' = <<>>
    /\ appointments' = <<>>
    /\ colliding' = <<>>
    /\ response' = <<>>
    /\ UNCHANGED <<allow_reschedule, bpc, sent, conflict, oldAppointmentId,
                   result>>

\* time passes; the code reads the clock at the top of a pass (line 441)
\* and at the first resumption of each generator (line 249)
Tick ==
    /\ \/ pc = "pass"
       \/ pc = "search" /\ spc = "begin" /\ now - passNow < MaxPassTicks
    /\ now < MaxTime - 1
    /\ now' = now + 1
    /\ UNCHANGED <<provider, portal, catalogue, pc, mvars, bvars, svars>>

\* line 201: the cutoff 0.1 of get_close_matches, in tenths
CUTOFF == 1

\* the similarity of a text of the filter list to the query, in tenths
Ratios == {0, CUTOFF, 5}

\* an element of a filter list: the texts are numbered in their order, and
\* the id is the number
Candidates == [id : {1, 2}, ratio : Ratios]

\* data.get(key, []): no two elements share a text
FilterLists == {S \in SUBSET Candidates : \A c, d \in S : c.id = d.id => c = d}

PlainList == {[id |-> 1, ratio |-> 5]}

\* the lookup that takes the closest text whatever its ratio
match_paramAnyRatio(options) ==
    IF options = {} THEN None
    ELSE (CHOOSE c \in options : \A d \in options :
              d.ratio < c.ratio \/ (d.ratio = c.ratio /\ d.id <= c.id)).id

\* lines 199-207: get_close_matches(text, list, 1, 0.1) gives the text of
\* the highest ratio among those at or above the cutoff (of the greatest
\* text among equals); None stands for SystemExit('Error translating ...')
match_param(options) ==
    LET matches == {c \in options : c.ratio >= CUTOFF}
    IN IF matches = {} THEN None
       ELSE (CHOOSE c \in matches : \A d \in matches :
                 d.ratio < c.ratio \/ (d.ratio = c.ratio /\ d.id <= c.id)).id

\* lines 210-232: the keys setup_params looks up, in its order, for a command
\* line with or without --region, with that many --clinic, with or without
\* --doctor
LookupKeys(region, clinics, doctor) ==
    (IF region THEN <<"regions">> ELSE <<>>) \o
    <<"serviceTypes", "services">> \o
    [i \in 1..clinics |-> "clinics"] \o
    (IF doctor THEN <<"doctors">> ELSE <<>>)

Shapes == [region : BOOLEAN, clinics : {0, 2}, doctor : BOOLEAN]

\* the lookups of one setup_params call with the filter lists the provider
\* answers with: one list of the call is any list, the others are plain
Scripts(shape) ==
    LET keys == LookupKeys(shape.region, shape.clinics, shape.doctor)
    IN {[i \in DOMAIN keys |->
            [key |-> keys[i], options |-> IF i = k THEN o ELSE PlainList]] :
        k \in DOMAIN keys, o \in FilterLists}

\* no --region, --clinic or --doctor; a list is plain or empty
ShortCatalogue ==
    {script \in Scripts([region |-> FALSE, clinics |-> 0, doctor |-> FALSE]) :
        \A i \in DOMAIN script : script[i].options \in {PlainList, {}}}

\* lines 190-234: setup_params, as a fold over its lookups that stops at the
\* first one without a match; log holds the lookups made, with their results
RECURSIVE setup_params(_, _, _)
setup_params(script, i, log) ==
    IF i > Len(script) THEN [ok |-> TRUE, log |-> log]
    ELSE LET id == match_param(script[i].options)
             entry == [key |-> script[i].key, options |-> script[i].options,
                       id |-> id]
         IN IF id = None
            THEN [ok |-> FALSE, log |-> Append(log, entry)]
            ELSE setup_params(script, i + 1, Append(log, entry))

\* lines 432-434: setup_params for one combination: the lookups resolve,
\* or one of them finds no match, or a request fails
MainSetup ==
    /\ pc = "setup"
    /\ \/ \E script \in catalogue :
            LET r == setup_params(script, 1, <<>>)
            IN /\ lookups' = r.log
               /\ IF r.ok
                  THEN /\ params' = Append(params, Len(params) + 1)
                       /\ pc' = IF Len(params') = args.combinations
                                THEN "pass" ELSE "setup"
                       /\ UNCHANGED outcome
                  ELSE /\ Exit("Error translating")
                       /\ UNCHANGED params
       \/ /\ Exit("HTTPError")
          /\ UNCHANGED <<params, lookups>>
    /\ UNCHANGED <<now, provider, portal, catalogue, args, attempt, start, end,
                   passNow, sidx, visits,
                   unique_visits, passreqs, slept, sleep_time, bvars, svars>>

\* lines 438-447: the top of a pass
MainPassStart ==
    /\ pc = "pass"
    /\ attempt' = Min(attempt + 1, MaxAttempts)
    /\ passNow' = now
    /\ start' = EffectiveStart(args.start, now, args.margin)
    /\ end' = args.end
    /\ passreqs' = 0
    /\ visits' = {}
    /\ IF TooLate(start', end')
       THEN /\ Exit("It's already too late")
            /\ UNCHANGED <<sidx, svars>>
       ELSE /\ pc' = "search"
            /\ sidx' = 1
            /\ SearchCall(start', end')
            /\ UNCHANGED outcome
    /\ UNCHANGED <<now, provider, portal, catalogue, args, params, lookups,
                   unique_visits, slept, sleep_time, bvars>>

\* line 447: the chain resumes the generator of params[sidx]
MainSearchBegin ==
    /\ pc = "search"
    /\ SearchBegin
    /\ UNCHANGED <<now, provider, portal, catalogue, pc, mvars, bvars>>

\* a page whose failed request sends a run with --keep-going to another pass
MainSearchPageRetry ==
    /\ pc = "search"
    /\ SearchPage
    /\ passreqs' = Inc(passreqs)
    /\ visits' = visits \cup
                 {v \in Range(yielded') : Wanted(v, start, end, args.time)}
    /\ IF spc' = "raised"
       THEN IF args.keep_going
            THEN pc' = "pass" /\ UNCHANGED outcome
            ELSE Exit("HTTPError")
       ELSE UNCHANGED <<pc, outcome>>
    /\ UNCHANGED <<now, provider, portal, catalogue, args, params, lookups, attempt,
                   start, end, passNow, sidx,
                   unique_visits, slept, sleep_time, bvars>>

\* lines 447-454: one page of the running generator, its yields filtered
\* into visits
MainSearchPage ==
    /\ pc = "search"
    /\ SearchPage
    /\ passreqs' = Inc(passreqs)
    /\ visits' = visits \cup
                 {v \in Range(yielded') : Wanted(v, start, end, args.time)}
    /\ IF spc' = "raised"
       THEN Exit("HTTPError")
       ELSE UNCHANGED <<pc, outcome>>
    /\ UNCHANGED <<now, provider, portal, catalogue, args, params, lookups, attempt,
                   start, end, passNow, sidx,
                   unique_visits, slept, sleep_time, bvars>>

\* line 447: a generator is exhausted and the chain goes to the next one
MainNextSearch ==
    /\ pc = "search"
    /\ spc = "done"
    /\ sidx < Len(params)
    /\ sidx' = sidx + 1
    /\ SearchCall(start, end)
    /\ UNCHANGED <<now, provider, portal, catalogue, pc, outcome, args, params,
                   lookups, attempt, start, end, passNow,
                   visits, unique_visits, passreqs, slept, sleep_time, bvars>>

\* lines 456-484: the chain is exhausted: the table, the call of autobook,
\* or the retry
MainPassEnd ==
    /\ pc = "search"
    /\ spc = "done"
    /\ sidx = Len(params)
    /\ unique_visits' = UniqueVisits(visits)
    /\ SearchCall(None, None)
    /\ IF unique_visits' # <<>>
       THEN IF args.autobook
            THEN /\ visit' = First(visits)
                 /\ allow_reschedule' = args.reschedule
                 /\ bpc' = "process"
                 /\ pc' = "autobook"
                 /\ UNCHANGED <<outcome, slept, sleep_time>>
            ELSE /\ Exit("Found")
                 /\ UNCHANGED <<visit, allow_reschedule, bpc, slept, sleep_time>>
       ELSE IF ~args.keep_going
            THEN /\ Exit("No visits found.")
                 /\ UNCHANGED <<visit, allow_reschedule, bpc, slept, sleep_time>>
            ELSE /\ slept' = SleepKind(args.interval)
                 /\ sleep_time' \in SleepTimes(args.interval)
                 /\ pc' = "pass"
                 /\ UNCHANGED <<outcome, visit, allow_reschedule, bpc>>
    /\ UNCHANGED <<now, provider, portal, catalogue, args, params, lookups, attempt,
                   start, end, passNow, sidx,
                   visits, passreqs, sent, conflict, appointments, colliding,
                   oldAppointmentId, response, result>>

\* line 466: a step of autobook; an exception of it ends the run
MainAutobook ==
    /\ pc = "autobook"
    /\ Autobook
    /\ IF bpc' = "http_error" THEN Exit("HTTPError")
       ELSE IF bpc' = "error" THEN Exit("Traceback")
       ELSE UNCHANGED <<pc, outcome>>
    /\ UNCHANGED <<now, provider, portal, catalogue, args, params, lookups, attempt,
                   start, end, passNow, sidx,
                   visits, unique_visits, passreqs, slept, sleep_time, svars>>

\* lines 466-469: what main does with the value autobook returned
Booked(ok) ==
    IF ok THEN "Autobooking successful." ELSE "Autobooking failed."

\* a failed booking that goes back to the top of the loop under --keep-going
MainBookedRetry ==
    /\ pc = "autobook"
    /\ bpc = "returned"
    /\ IF ~result /\ args.keep_going
       THEN pc' = "pass" /\ UNCHANGED outcome
       ELSE Exit(Booked(result))
    /\ UnwindPass
    /\ UnwindBook
    /\ UNCHANGED <<now, provider, portal, catalogue, args, params, lookups, attempt,
                   start, end,
                   passNow, sidx, passreqs, slept, sleep_time, svars>>

\* lines 466-471: autobook has returned; both messages end the run
MainBooked ==
    /\ pc = "autobook"
    /\ bpc = "returned"
    /\ Exit(Booked(result))
    /\ UnwindPass
    /\ UnwindBook
    /\ UNCHANGED <<now, provider, portal, catalogue, args, params, lookups, attempt,
                   start, end,
                   passNow, sidx, passreqs, slept, sleep_time, svars>>

\* lines 487-491: KeyboardInterrupt, raised wherever main is
Interrupt ==
    /\ pc \in {"setup", "pass", "search", "autobook"}
    /\ Exit("Abort.")
    /\ SearchCall(None, None)
    /\ UnwindPass
    /\ UnwindBook
    /\ UNCHANGED <<now, provider, portal, catalogue, args, params, lookups, attempt,
                   start, end, passNow, sidx,
                   passreqs, slept, sleep_time>>

\* the state after login (line 424), for the command lines of argset and a
\* provider that answers with the pages of pages and the lookups of scripts
InitWith(argset, pages, scripts) ==
    /\ now = 0
    /\ provider = pages
    /\ portal = ShortProcessPages
    /\ catalogue = scripts
    /\ pc = "setup"
    /\ outcome = ""
    /\ args \in argset
    /\ params = <<>>
    /\ lookups = <<>>
    /\ attempt = 0
    /\ start = None
    /\ end = None
    /\ passNow = None
    /\ sidx = 0
    /\ visits = {}
    /\ unique_visits = <<>>
    /\ passreqs = 0
    /\ slept = "no"
    /\ sleep_time = None
    /\ BookIdle
    /\ SearchIdle(None, None)

\* runs with the default interval and no --time
Init == InitWith(Args({5}, {NoRange}), ShortPages, ShortCatalogue)

Next ==
    \/ Tick
    \/ MainSetup
    \/ MainPassStart
    \/ MainSearchBegin
    \/ MainSearchPage
    \/ MainNextSearch
    \/ MainPassEnd
    \/ MainAutobook
    \/ MainBooked
    \/ Interrupt

Spec == Init /\ [][Next]_vars

\* runs of every kind of --interval, from a start in the past until a
\* minute, for two combinations
RetryArgs ==
    {a \in Args(Intervals, {NoRange}) :
        /\ a.start = 0
        /\ \E t \in EndTexts : a.end = parse_datetime_max(t, FALSE)
        /\ a.combinations = 2
        /\ a.reschedule = a.autobook}

RetryInit == InitWith(RetryArgs, ShortPages, ShortCatalogue)

RetrySpec == RetryInit /\ [][Next]_vars

\* runs with --keep-going and no margin, until minute 1 at the latest
PollArgs ==
    {a \in RetryArgs :
        /\ a.keep_going
        /\ a.margin = 0
        /\ a.end = parse_datetime_max(MinuteTicks, FALSE)}

PollInit == InitWith(PollArgs, ShortPages, ShortCatalogue)

\* the steps of the program, the clock and the interrupt apart
ProgramNext ==
    \/ MainSetup
    \/ MainPassStart
    \/ MainSearchBegin
    \/ MainSearchPage
    \/ MainNextSearch
    \/ MainPassEnd
    \/ MainAutobook
    \/ MainBooked

\* the interpreter keeps running the program, and the clock does not stand
\* still at the top of the passes of a loop that goes on
PollSpec ==
    /\ PollInit
    /\ [][Next]_vars
    /\ WF_vars(ProgramNext)
    /\ SF_vars(Tick /\ pc = "pass")

\* items of two doctors and two ids, dated before, inside and after the
\* window of FilterArgs, at both times of day
FilterItems ==
    [appointmentDate : {0, MinuteTicks, DayTicks + MinuteTicks},
     specializationName : Specializations, doctorName : {1, 2},
     clinicName : Clinics, id : {111, 222}]

FilterPages == UNION {[1..n -> FilterItems] : n \in PageLens}

\* one-pass runs with and without --time, for two combinations, until the
\* last instant of minute 1
FilterArgs ==
    {a \in Args({5}, {NoRange} \cup TimeRanges) :
        /\ a.end = parse_datetime_max(MinuteTicks, FALSE)
        /\ a.margin = 0
        /\ a.combinations = 2
        /\ ~a.keep_going
        /\ a.reschedule = a.autobook}

FilterInit == InitWith(FilterArgs, FilterPages, ShortCatalogue)

FilterSpec == FilterInit /\ [][Next]_vars

\* one command line of two combinations with --autobook, for every choice of
\* --region, --clinic and --doctor
SetupArgs ==
    {a \in Args({5}, {NoRange}) :
        /\ a.start = 0
        /\ a.end = parse_datetime_max(MinuteTicks, FALSE)
        /\ a.margin = 0
        /\ a.combinations = 2
        /\ a.autobook /\ a.reschedule /\ ~a.keep_going}

SetupInit ==
    \E shape \in Shapes : InitWith(SetupArgs, ShortPages, Scripts(shape))

SetupSpec == SetupInit /\ [][Next]_vars

\* ------------------------------------------------------ claims about main

\* C5: with --keep-going and --autobook, a pass whose booking attempt fails
\* does not end the run.
C5_FailedBookingDoesNotEndRun ==
    (args.keep_going /\ args.autobook) => outcome # "Autobooking failed."

\* the window of the pass that read the clock at passNow
C6_Window ==
    /\ pc \in {"search", "autobook"} =>
         /\ start = Max(args.start, passNow + args.margin)
         /\ end = args.end
         /\ start < end
    /\ outcome = "It's already too late" =>
         /\ start = Max(args.start, now + args.margin)
         /\ start >= args.end
         /\ passreqs = 0

\* a step from the top of a pass, other than the clock's and the interrupt's
C6_PassTop ==
    (pc = "pass" /\ pc' # "pass" /\ outcome' # "Abort.") =>
        /\ start' = Max(args.start, now + args.margin)
        /\ passreqs' = 0
        /\ outcome' = "It's already too late" <=> start' >= args.end
        /\ pc' = "search" <=> start' < args.end

\* C6: every pass, first or later, recomputes start as max(requested start,
\* now + margin); when it is at or after the requested end the run ends as
\* too late with no search request issued in that pass, and nothing follows:
\* the outcome is not retried, with or without --keep-going.
C6_WindowExhausted ==
    []C6_Window /\ [][C6_PassTop /\ pc # "exit"]_vars

\* a later pass of a run with --keep-going found the window exhausted
C6_Witness ==
    /\ outcome = "It's already too late"
    /\ attempt >= 2
    /\ args.keep_going
    /\ start = end

\* C7: a run that ends aborted has sent no Reschedule request and no Confirm
\* POST to the provider.
C7_AbortLeavesNoCommit ==
    outcome = "Abort." =>
        /\ "Reschedule" \notin Range(sent)
        /\ "ConfirmPost" \notin Range(sent)

\* C8: the searchSince of every search request is at or after the requested
\* start time and at or after the current time plus the margin.
C8_SinceAtLeastStartAndMargin ==
    (pc = "search" /\ nreq >= 1) =>
        /\ searchSince >= args.start
        /\ searchSince >= now + args.margin

\* --------------------------------------------------- claims about autobook

\* autobook has returned from its Reschedule branch
RescheduleReturned ==
    /\ bpc = "returned"
    /\ sent # <<>>
    /\ sent[Len(sent)] = "Reschedule"

C4_NoRequestAfterProcess ==
    (conflict = "yes" /\ ~allow_reschedule) =>
        (bpc = "returned" /\ ~result /\ sent = <<"Process">>)

C4_Witness ==
    /\ conflict = "yes"
    /\ ~allow_reschedule
    /\ bpc = "returned"
    /\ sent = <<"Process">>

C12_ConfirmPath ==
    (conflict = "no" /\ bpc \notin {"confirm_get", "confirm_post", "http_error"}) =>
        /\ sent = <<"Process", "ConfirmGet", "ConfirmPost">>
        /\ bpc = "returned"
        /\ result <=> response.confirm

\* the chain of a pass is exhausted and nothing passed the filters
C13_NothingLeft ==
    /\ pc = "search"
    /\ spc = "done"
    /\ sidx = Len(params)
    /\ UniqueVisits(visits) = <<>>

\* the step main takes from there, the interrupt apart
C13_AfterNothing ==
    (C13_NothingLeft /\ outcome' # "Abort.") =>
        IF ~args.keep_going
        THEN /\ pc' = "exit"
             /\ outcome' = "No visits found."
             /\ sleep_time' = sleep_time
             /\ passreqs' = passreqs
        ELSE /\ pc' = "pass"
             /\ outcome' = ""
             /\ args.interval = 0 => sleep_time' = None
             /\ args.interval > 0 => sleep_time' = args.interval
             /\ args.interval < 0 => sleep_time' \in 0..(-args.interval)

\* the pass that follows computes its start from the clock it reads
C13_NextPass ==
    (pc = "pass" /\ pc' = "search") =>
        /\ start' = Max(args.start, now + args.margin)
        /\ attempt' >= 1

\* C13: when a pass leaves no visit after the filters, a run without
\* --keep-going ends as "No visits found." with no sleep and no further
\* step (so no further search request); a run with --keep-going sleeps the
\* interval when it is positive, a time within [0, |interval|] when it is
\* negative, does not sleep when it is zero, and goes to the top of another
\* pass, which recomputes start from the clock.
C13_NoVisitsRetry ==
    /\ [](outcome = "No visits found." => (~args.keep_going /\ pc = "exit"))
    /\ [][C13_AfterNothing /\ C13_NextPass /\ outcome # "No visits found."]_vars

\* a later pass after a random sleep, its start recomputed from a later clock
C13_Witness ==
    /\ pc = "search"
    /\ attempt >= 2
    /\ args.interval < 0
    /\ sleep_time > 0
    /\ now > 0
    /\ start = now + args.margin
    /\ start > args.start + args.margin

\* the chain of a pass is exhausted and a visit passed the filters
C14_SomethingLeft ==
    /\ pc = "search"
    /\ spc = "done"
    /\ sidx = Len(params)
    /\ UniqueVisits(visits) # <<>>

\* from there main goes to autobook or ends, and from autobook it only ends;
\* neither issues a search request or counts another pass
C14_NoMorePasses ==
    /\ C14_SomethingLeft =>
         /\ pc' = IF args.autobook /\ outcome' # "Abort." THEN "autobook" ELSE "exit"
         /\ passreqs' = passreqs
         /\ attempt' = attempt
    /\ pc = "autobook" =>
         /\ pc' \in {"autobook", "exit"}
         /\ passreqs' = passreqs
         /\ attempt' = attempt
         /\ spc' = "begin" /\ nreq' = 0
    /\ pc # "exit"

C15_FailureEnds ==
    (spc' = "raised" \/ bpc' = "http_error" \/ outcome' = "HTTPError") =>
        /\ pc' = "exit"
        /\ outcome' = "HTTPError"
        /\ attempt' = attempt

\* the top of a pass is entered from the setup, or from a pass that found
\* no visit in a run with --keep-going
C15_PassEntry ==
    (pc # "pass" /\ pc' = "pass") =>
        \/ pc = "setup"
        \/ C13_NothingLeft /\ args.keep_going

\* C15: a failed remote call (a lookup of the setup, a search page, Process,
\* Confirm, Reschedule) ends the run with the error: nothing follows it, so
\* the request is not reissued and no pass is started, also with
\* --keep-going; another pass is started only after a pass that found no
\* visit.
C15_RemoteFailurePropagates ==
    /\ [](outcome = "HTTPError" => pc = "exit")
    /\ [][C15_FailureEnds /\ C15_PassEntry /\ outcome # "HTTPError"]_vars

\* a search request of a later pass failed in a run with --keep-going
C15_Witness ==
    /\ args.keep_going
    /\ attempt >= 2
    /\ spc = "raised"
    /\ outcome = "HTTPError"

\* the order of two table rows: by date, then specialization, doctor, clinic
C16_RowBefore(a, b) ==
    \/ a[1] < b[1]
    \/ a[1] = b[1] /\ a[2] < b[2]
    \/ a[1] = b[1] /\ a[2] = b[2] /\ a[3] < b[3]
    \/ a[1] = b[1] /\ a[2] = b[2] /\ a[3] = b[3] /\ a[4] < b[4]

\* the table of the pass is on display
C16_Displayed == pc = "autobook" \/ outcome = "Found"

\* C16: the displayed list holds the (date, specialization, doctor, clinic)
\* tuples of the filtered visits, each exactly once however many visit ids
\* share it, in strictly ascending order of the tuple.
C16_DedupSorted ==
    C16_Displayed =>
        /\ Range(unique_visits) = {<<v[1], v[2], v[3], v[4]>> : v \in visits}
        /\ Len(unique_visits) = Cardinality({<<v[1], v[2], v[3], v[4]>> : v \in visits})
        /\ \A i, j \in DOMAIN unique_visits :
              i < j => C16_RowBefore(unique_visits[i], unique_visits[j])

\* three filtered visits of two tuples: two ids share one of them
C16_Witness ==
    /\ C16_Displayed
    /\ Cardinality(visits) = 3
    /\ Len(unique_visits) = 2
    /\ \E v, w \in visits : VisitIdOf(v) # VisitIdOf(w) /\ SubSeq(v, 1, 4) = SubSeq(w, 1, 4)

\* a date inside the window of the pass and inside the --time window
C17_Inside(d) ==
    /\ start <= d
    /\ d <= end
    /\ args.time # NoRange =>
         /\ args.time[1] <= d % DayTicks
         /\ d % DayTicks <= args.time[2]

\* what is kept, displayed and handed to autobook lies inside
C17_OnlyInside ==
    /\ \A v \in visits : C17_Inside(v[1])
    /\ \A i \in DOMAIN unique_visits : C17_Inside(unique_visits[i][1])
    /\ pc = "autobook" => C17_Inside(visit[1])

\* a page adds exactly its visits that lie inside
C17_KeepsInside ==
    (pc = "search" /\ spc = "request" /\ pc' = "search") =>
        /\ \A i \in DOMAIN yielded' :
              C17_Inside(yielded'[i][1]) <=> yielded'[i] \in visits'
        /\ visits \subseteq visits'
        /\ visits' \subseteq visits \cup Range(yielded')

\* C17: no visit dated outside [start, end] of the pass, and with --time no
\* visit whose time of day is outside the window, both bounds included, is
\* kept, displayed or handed to autobook, though search yields such visits;
\* every yielded visit inside both is kept.
C17_FiltersExact ==
    []C17_OnlyInside /\ [][C17_KeepsInside]_vars

\* a page held a visit on the very start, at the first instant of the
\* --time window, which was kept, and a visit that was dropped
C17_Witness ==
    /\ pc = "search"
    /\ args.time # NoRange
    /\ \E v \in Range(yielded) :
          /\ v \in visits
          /\ v[1] = start
          /\ v[1] % DayTicks = args.time[1]
    /\ \E w \in Range(yielded) : w \notin visits

\* the full-record order: the table order, then visit_id
C18_RecordBefore(a, b) ==
    \/ C16_RowBefore(a, b)
    \/ /\ <<a[1], a[2], a[3], a[4]>> = <<b[1], b[2], b[3], b[4]>>
       /\ a[5] < b[5]

\* C18: the visit handed to autobook is a filtered visit that precedes every
\* other filtered visit in the order (date, specialization, doctor, clinic,
\* visit_id), so none has an earlier date and ties of the date are broken by
\* the rest of the record; its first four fields are the first row of the
\* displayed list.
C18_BooksLeastVisit ==
    pc = "autobook" =>
        /\ visit \in visits
        /\ \A w \in visits : w = visit \/ C18_RecordBefore(visit, w)
        /\ \A w \in visits : visit[1] <= w[1]
        /\ <<visit[1], visit[2], visit[3], visit[4]>> = unique_visits[1]

\* the visit handed over shares its date with a visit of another doctor and
\* its whole row with a visit of another id, and a later visit was found too
C18_Witness ==
    /\ pc = "autobook"
    /\ \E w \in visits : w[1] = visit[1] /\ w[3] > visit[3]
    /\ \E w \in visits : SubSeq(w, 1, 4) = SubSeq(visit, 1, 4) /\ w[5] > visit[5]
    /\ \E w \in visits : w[1] > visit[1]

\* a lookup of the log found no text at or above the cutoff
C19_Unmatched(e) == \A c \in e.options : c.ratio < CUTOFF

\* what the log of the latest setup_params call shows
C19_Lookups ==
    \A i \in DOMAIN lookups :
        LET e == lookups[i]
        IN IF C19_Unmatched(e)
           THEN /\ e.id = None
                /\ i = Len(lookups)
                /\ outcome = "Error translating"
           ELSE \E c \in e.options :
                  /\ c.id = e.id
                  /\ c.ratio >= CUTOFF
                  /\ \A d \in e.options : d.ratio <= c.ratio

\* C19: a search or booking request is issued only when setup_params has
\* returned for every combination; a lookup (regions, serviceTypes, services,
\* clinics, doctors) whose list holds no text at or above the cutoff ends the
\* run as "Error translating" with no search request, no booking request and
\* no pass; every id a lookup gives is the id of a text at or above the
\* cutoff that no other text of the list beats.
C19_ResolutionFirst ==
    /\ (pc \in {"pass", "search", "autobook"} \/ passreqs > 0 \/ nreq > 0
            \/ sent # <<>> \/ attempt > 0) =>
         Len(params) = args.combinations
    /\ C19_Lookups
    /\ outcome = "Error translating" =>
         /\ lookups # <<>>
         /\ C19_Unmatched(lookups[Len(lookups)])
         /\ passreqs = 0 /\ nreq = 0 /\ searchSince = None
         /\ sent = <<>>
         /\ attempt = 0

\* the second --clinic of the second combination has texts in its list, all
\* below the cutoff, after the first --clinic was resolved
C19_Witness ==
    /\ outcome = "Error translating"
    /\ Len(params) = 1
    /\ Len(lookups) >= 4
    /\ lookups[Len(lookups)].key = "clinics"
    /\ lookups[Len(lookups) - 1].key = "clinics"
    /\ lookups[Len(lookups)].options # {}

\* C20: a run with --keep-going that is not held in a search forever comes
\* to an end; its loop of passes does not go on forever.
C20_RetryLoopEnds ==
    []<>(pc # "search") => <>(pc = "exit")

\* after passes that found nothing the window ran out
C20_Witness ==
    /\ args.keep_going
    /\ attempt >= MaxAttempts
    /\ slept # "no"
    /\ now > 0
    /\ outcome = "It's already too late"

====
